---- MODULE Spec2Model ----
(***************************************************************************)
(* Model of the tunnel supervisor of mole (package tunnel in               *)
(* src/cmd/root.go): Tunnel.Start, connect, Listen, dial, keepAlive,       *)
(* watchForDisconnect, the per-channel accept loops (startChannel) and     *)
(* Stop, with the five capacity-1 Go channels of the Tunnel struct.        *)
(*                                                                         *)
(* Every goroutine is a process with a program counter.  A generation g    *)
(* is the g-th time dial() returned nil: it owns the keep-alive task, the  *)
(* watcher, the ready consolidator and the accept loops that were spawned  *)
(* right after that return.  The SSH client handle is the number of the    *)
(* generation whose ssh.Dial produced it, 0 being the nil pointer.         *)
(*                                                                         *)
(* A nil pointer dereference is a Go run-time panic; nothing in the        *)
(* package recovers, so it ends the whole process (panicked).              *)
(***************************************************************************)
EXTENDS Integers, Sequences, FiniteSets, TLC

\* ---------------------------------------------------------------- bounds
MaxGen == 2          \* generations (returns of dial() with nil) explored
MaxRetries == 2      \* largest ConnectionRetries explored
MaxFail == 1         \* failed attempts explored when ConnectionRetries = 0
NumCh == 1           \* number of channels of the tunnel
MaxStops == 1        \* callers of Stop() that may be blocked at a time
MaxConns == 1        \* local connections made to the listeners
MaxAcceptErrs == 1   \* failures of Accept() explored
MaxAddrs == 2        \* longest list of addresses given to BuildSSHChannels

\* ------------------------------------------------------ program constants
ChanCap == 1         \* capacity of Ready, reconnect, done, stopKeepAlive, watchConn
RandomPort == 0      \* port of RandomPortAddress "127.0.0.1:0"

Gens == 1..MaxGen
Channels == 1..NumCh
RetryCfg == (0 - 1)..MaxRetries
\* the local ports a channel may be configured with: ":0" or a fixed one
ConfiguredPorts == {RandomPort, 8080}
EphemeralPorts == {5001, 5002}
NoErr == "nil"
Errs == {"bind", "config", "exhausted", "eof", "accept", "remote_dial", "no_client"}

VARIABLES
  ConnectionRetries, \* Tunnel.ConnectionRetries
  Local,             \* channel -> port of SSHChannel.Local
  listener,          \* channel -> listener handle, 0 = nil
  open,              \* handles of the listeners that are bound and not closed
  client,            \* Tunnel.client: 0 = nil, g = client made by generation g
  sess,              \* client handle -> "none" | "up" | "dead" | "closed"
  gen,               \* number of times dial() returned nil
  done, reconnect, stopKeepAlive, watchConn, Ready,   \* the Go channels
  supPC,             \* position of the goroutine running Start()
  err,               \* the err local of connect()/Start(); Start's result once returned
  retries,           \* the retries local of dial()
  kaPC,              \* generation -> position of its keepAlive goroutine
  wPC,               \* generation -> position of its watchForDisconnect goroutine
  rdyPC,             \* generation -> position of its ready consolidator
  alPC,              \* generation -> channel -> position of its accept loop
  alTag,             \* generation -> channel -> tag of the connection it holds
  pending,           \* channel -> backlog of the listener (tags of the connections)
  stopBlocked,       \* callers of Stop() that are blocked in the send on done
  conns,             \* local connections made so far
  acceptErrs,        \* failures of Accept() so far
  panicked,          \* the process died of a nil pointer dereference
  \* history variables, read by the properties only
  dialCount,         \* ssh.Dial attempts of the dial() in progress or last failed;
                     \* 0 before the first and once dial() has returned nil
  firstBind,         \* channel -> <<handle, port>> right after its first bind
  dialedOn,          \* <<g, h>>: the last t.client.Dial was issued by an accept
                     \* loop of generation g on client handle h; <<0, 0>> = none
  \* BuildSSHChannels, called by the command before the tunnel is made
  bLocal, bRemote,   \* its arguments local and remote
  bResult            \* its result, once it has been called

cfgVars == <<ConnectionRetries>>
lsnVars == <<Local, listener, open, firstBind>>
sshVars == <<client, sess, gen>>
chanVars == <<done, reconnect, stopKeepAlive, watchConn, Ready>>
supVars == <<supPC, err, retries>>
workVars == <<kaPC, wPC, rdyPC, alPC, alTag>>
envVars == <<pending, stopBlocked, conns, acceptErrs>>
histVars == <<dialCount, dialedOn>>
bldVars == <<bLocal, bRemote, bResult>>
vars == <<cfgVars, lsnVars, sshVars, chanVars, supVars, workVars, envVars,
          histVars, bldVars, panicked>>

\* ---------------------------------------------------------------- helpers
\* a buffered Go channel of capacity ChanCap: a send completes iff there is room
CanSend(ch) == Len(ch) < ChanCap
CanRecv(ch) == Len(ch) > 0

\* the current session is gone: Tunnel.client is nil or its connection is down
SessionDown == client = 0 \/ sess[client] # "up"
\* an outage: a session existed and the current one is gone
Outage == (\E g \in Gens : sess[g] # "none") /\ SessionDown

Returned == supPC = "returned"
Running == supPC \notin {"idle", "returned"} /\ ~panicked

\* sends completed on Ready so far: one per consolidator that is past its send
readySends == Cardinality({g \in Gens : rdyPC[g] = "sent"})

\* ------------------------------------------------------------------- New
\* the Tunnel that New() returns, no goroutine started, no channel bound
New ==
  /\ listener = [c \in Channels |-> 0]
  /\ open = {}
  /\ firstBind = [c \in Channels |-> <<0, 0>>]
  /\ client = 0
  /\ sess = [g \in Gens |-> "none"]
  /\ gen = 0
  /\ done = <<>> /\ reconnect = <<>> /\ stopKeepAlive = <<>>
  /\ watchConn = <<>> /\ Ready = <<>>
  /\ supPC = "idle" /\ err = NoErr /\ retries = 0
  /\ kaPC = [g \in Gens |-> "none"]
  /\ wPC = [g \in Gens |-> "none"]
  /\ rdyPC = [g \in Gens |-> "none"]
  /\ alPC = [g \in Gens |-> [c \in Channels |-> "none"]]
  /\ alTag = [g \in Gens |-> [c \in Channels |-> "-"]]
  /\ pending = [c \in Channels |-> <<>>]
  /\ stopBlocked = 0 /\ conns = 0 /\ acceptErrs = 0
  /\ panicked = FALSE
  /\ dialCount = 0
  /\ dialedOn = <<0, 0>>

\* BuildSSHChannels has not been called
NotBuilt == [pc |-> "idle", err |-> NoErr, channels |-> <<>>]

Init ==
  /\ ConnectionRetries \in RetryCfg
  /\ Local \in [Channels -> ConfiguredPorts]
  /\ New
  /\ bLocal = <<>> /\ bRemote = <<>> /\ bResult = NotBuilt

\* ---------------------------------------------------------------- Listen
\* the ports of the listeners that are bound
BoundPorts(lsn, loc, opn) == {loc[d] : d \in {e \in Channels : lsn[e] \in opn}}

\* net.Listen("tcp", "127.0.0.1:0"): the operating system assigns a free
\* port.  Ephemeral ports are interchangeable, the lowest free one stands
\* for whichever is assigned; 0 when none is left.
AssignPort(used) ==
  IF EphemeralPorts \subseteq used THEN 0
  ELSE CHOOSE p \in EphemeralPorts \ used :
         \A q \in EphemeralPorts \ used : p <= q

\* Listen() without the test of ch.listener: every call binds every channel
\* again and replaces its listener
RECURSIVE ListenFrom_Rebind(_, _, _, _, _, _)
ListenFrom_Rebind(c, lsn, loc, opn, fst, fail) ==
  IF c > NumCh
  THEN [err |-> NoErr, listener |-> lsn, Local |-> loc, open |-> opn, first |-> fst]
  ELSE LET used == BoundPorts(lsn, loc, opn \ {lsn[c]})
           port == IF loc[c] = RandomPort THEN AssignPort(used) ELSE loc[c]
           h == IF lsn[c] # 0 THEN lsn[c] + NumCh ELSE Cardinality(opn) + 1
       IN IF fail[c] \/ port = 0 \/ port \in used
          THEN [err |-> "bind", listener |-> lsn, Local |-> loc, open |-> opn,
                first |-> fst]
          ELSE ListenFrom_Rebind(c + 1, [lsn EXCEPT ![c] = h],
                          [loc EXCEPT ![c] = port],
                          (opn \ {lsn[c]}) \cup {h},
                          IF fst[c] = <<0, 0>> THEN [fst EXCEPT ![c] = <<h, port>>]
                                               ELSE fst,
                          fail)

\* One pass of the loop of Listen() from channel c on.  fail[c] is the
\* operating system refusing the bind of channel c; binding a port that is
\* in use fails as well.  A channel whose listener is not nil is skipped.
RECURSIVE ListenFrom(_, _, _, _, _, _)
ListenFrom(c, lsn, loc, opn, fst, fail) ==
  IF c > NumCh
  THEN [err |-> NoErr, listener |-> lsn, Local |-> loc, open |-> opn, first |-> fst]
  ELSE IF lsn[c] # 0
  THEN ListenFrom(c + 1, lsn, loc, opn, fst, fail)
  ELSE LET used == BoundPorts(lsn, loc, opn)
           port == IF loc[c] = RandomPort THEN AssignPort(used) ELSE loc[c]
           h == Cardinality(opn) + 1
       IN IF fail[c] \/ port = 0 \/ port \in used
          THEN [err |-> "bind", listener |-> lsn, Local |-> loc, open |-> opn,
                first |-> fst]
          ELSE ListenFrom(c + 1, [lsn EXCEPT ![c] = h], [loc EXCEPT ![c] = port],
                          opn \cup {h},
                          IF fst[c] = <<0, 0>> THEN [fst EXCEPT ![c] = <<h, port>>]
                                               ELSE fst,
                          fail)

Listen(fail) == ListenFrom(1, listener, Local, open, firstBind, fail)

\* ------------------------------------------------------- Start / connect
Start_Call ==
  /\ supPC = "idle" /\ ~panicked
  /\ supPC' = "listen"
  /\ UNCHANGED <<cfgVars, bldVars, lsnVars, sshVars, chanVars, err, retries, workVars,
                 envVars, histVars, panicked>>

\* connect(): err := t.Listen()
connect_Listen ==
  /\ supPC = "listen" /\ ~panicked
  /\ \E fail \in [Channels -> BOOLEAN] :
       LET r == Listen(fail) IN
         /\ listener' = r.listener /\ Local' = r.Local /\ open' = r.open
         /\ firstBind' = r.first
         /\ err' = r.err
         /\ supPC' = IF r.err # NoErr THEN "send_done" ELSE "dial"
  /\ UNCHANGED <<cfgVars, bldVars, sshVars, chanVars, retries, workVars, envVars,
                 histVars, panicked>>

\* connect(): t.done <- err, return to the select of Start()
connect_SendDone ==
  /\ supPC = "send_done" /\ ~panicked
  /\ CanSend(done)
  /\ done' = Append(done, err)
  /\ supPC' = "select"
  /\ UNCHANGED <<cfgVars, bldVars, lsnVars, sshVars, reconnect, stopKeepAlive, watchConn,
                 Ready, err, retries, workVars, envVars, histVars, panicked>>

\* dial(): close the old client, build the client configuration, retries := 0
dial_Begin ==
  /\ supPC = "dial" /\ ~panicked
  /\ sess' = IF client # 0 THEN [sess EXCEPT ![client] = "closed"] ELSE sess
  /\ dialCount' = 0
  /\ \/ /\ err' = "config" /\ supPC' = "send_reconnect" /\ retries' = retries
     \/ /\ err' = err /\ supPC' = "dial_loop" /\ retries' = 0
  /\ UNCHANGED <<cfgVars, bldVars, lsnVars, client, gen, chanVars, workVars, envVars,
                 dialedOn, panicked>>

\* the test of the retry bound without its exemption of ConnectionRetries = 0
Exhausted_AtZero == ConnectionRetries >= 0 /\ retries = ConnectionRetries

\* dial(): t.ConnectionRetries > 0 && retries == t.ConnectionRetries
Exhausted == ConnectionRetries > 0 /\ retries = ConnectionRetries

\* dial(): the retry bound is reached
dial_Exhausted ==
  /\ supPC = "dial_loop" /\ ~panicked
  /\ Exhausted
  /\ err' = "exhausted" /\ supPC' = "send_reconnect"
  /\ UNCHANGED <<cfgVars, bldVars, lsnVars, sshVars, chanVars, retries, workVars,
                 envVars, histVars, panicked>>

\* dial(): t.client, err = ssh.Dial(...), one attempt
dial_Attempt ==
  /\ supPC = "dial_loop" /\ ~panicked
  /\ ~Exhausted
  /\ gen < MaxGen
  /\ dialCount' = dialCount + 1
  /\ \/ /\ client' = gen + 1
        /\ sess' = [sess EXCEPT ![gen + 1] = "up"]
        /\ supPC' = "dial_spawn" /\ retries' = retries
     \/ /\ ConnectionRetries # 0 \/ retries < MaxFail
        /\ client' = 0 /\ sess' = sess
        /\ IF ConnectionRetries < 0
           THEN supPC' = "dial_spawn" /\ retries' = retries
           ELSE supPC' = "dial_loop" /\ retries' = retries + 1
  /\ UNCHANGED <<cfgVars, bldVars, lsnVars, gen, chanVars, err, workVars, envVars,
                 dialedOn, panicked>>

\* dial(): go keepAlive(), go watchForDisconnect(), return nil; then
\* connect(): the consolidator and one accept loop per channel
dial_Spawn ==
  /\ supPC = "dial_spawn" /\ ~panicked
  /\ gen' = gen + 1
  /\ kaPC' = [kaPC EXCEPT ![gen + 1] = "run"]
  /\ wPC' = IF ConnectionRetries > 0 THEN [wPC EXCEPT ![gen + 1] = "select"] ELSE wPC
  /\ rdyPC' = [rdyPC EXCEPT ![gen + 1] = "wait"]
  /\ alPC' = [alPC EXCEPT ![gen + 1] = [c \in Channels |-> "enter"]]
  /\ err' = NoErr /\ retries' = 0 /\ dialCount' = 0
  /\ supPC' = "select"
  /\ UNCHANGED <<cfgVars, bldVars, lsnVars, client, sess, chanVars, alTag,
                 envVars, dialedOn, panicked>>

\* connect(): t.reconnect <- err
connect_SendReconnect ==
  /\ supPC = "send_reconnect" /\ ~panicked
  /\ CanSend(reconnect)
  /\ reconnect' = Append(reconnect, err)
  /\ supPC' = "select"
  /\ UNCHANGED <<cfgVars, bldVars, lsnVars, sshVars, done, stopKeepAlive, watchConn, Ready,
                 err, retries, workVars, envVars, histVars, panicked>>

\* Start(): case err := <-t.reconnect
Start_RecvReconnect ==
  /\ supPC = "select" /\ ~panicked
  /\ CanRecv(reconnect)
  /\ err' = Head(reconnect)
  /\ reconnect' = Tail(reconnect)
  /\ supPC' = IF Head(reconnect) # NoErr THEN "rc_stopKA" ELSE "select"
  /\ UNCHANGED <<cfgVars, bldVars, lsnVars, sshVars, done, stopKeepAlive, watchConn, Ready,
                 retries, workVars, envVars, histVars, panicked>>

\* Start(): case err := <-t.done
Start_RecvDone ==
  /\ supPC = "select" /\ ~panicked
  /\ CanRecv(done)
  /\ err' = Head(done)
  /\ done' = Tail(done)
  /\ supPC' = IF client # 0 THEN "dn_stopKA" ELSE "returned"
  /\ UNCHANGED <<cfgVars, bldVars, lsnVars, sshVars, reconnect, stopKeepAlive, watchConn,
                 Ready, retries, workVars, envVars, histVars, panicked>>

\* Start(): t.stopKeepAlive <- true, in either arm
Start_StopKeepAlive ==
  /\ supPC \in {"rc_stopKA", "dn_stopKA"} /\ ~panicked
  /\ CanSend(stopKeepAlive)
  /\ stopKeepAlive' = Append(stopKeepAlive, TRUE)
  /\ supPC' = IF supPC = "rc_stopKA" THEN "rc_watch" ELSE "dn_watch"
  /\ UNCHANGED <<cfgVars, bldVars, lsnVars, sshVars, done, reconnect, watchConn, Ready,
                 err, retries, workVars, envVars, histVars, panicked>>

\* Start(): t.watchConn <- false, in either arm
Start_WatchOff ==
  /\ supPC \in {"rc_watch", "dn_watch"} /\ ~panicked
  /\ CanSend(watchConn)
  /\ watchConn' = Append(watchConn, FALSE)
  /\ supPC' = IF supPC = "rc_watch" THEN "rc_close" ELSE "dn_close"
  /\ UNCHANGED <<cfgVars, bldVars, lsnVars, sshVars, done, reconnect, stopKeepAlive, Ready,
                 err, retries, workVars, envVars, histVars, panicked>>

\* Start(): t.client.Close() of the reconnect arm, then t.connect()
Start_RcClose ==
  /\ supPC = "rc_close" /\ ~panicked
  /\ IF client = 0
     THEN panicked' = TRUE /\ sess' = sess /\ supPC' = supPC
     ELSE panicked' = panicked /\ sess' = [sess EXCEPT ![client] = "closed"]
          /\ supPC' = "listen"
  /\ UNCHANGED <<cfgVars, bldVars, lsnVars, client, gen, chanVars, err, retries, workVars,
                 envVars, histVars>>

\* Start(): t.client.Close() of the done arm (client is not nil there), return err
Start_DnClose ==
  /\ supPC = "dn_close" /\ ~panicked
  /\ IF client = 0
     THEN panicked' = TRUE /\ sess' = sess /\ supPC' = supPC
     ELSE panicked' = panicked /\ sess' = [sess EXCEPT ![client] = "closed"]
          /\ supPC' = "returned"
  /\ UNCHANGED <<cfgVars, bldVars, lsnVars, client, gen, chanVars, err, retries, workVars,
                 envVars, histVars>>

\* -------------------------------------------------------------- keepAlive
\* keepAlive(): case <-ticker.C: t.client.SendRequest(...); an error of the
\* request is only logged, a nil client is dereferenced
keepAlive_Tick(g) ==
  /\ kaPC[g] = "run" /\ ~panicked
  /\ client = 0
  /\ panicked' = TRUE
  /\ UNCHANGED <<cfgVars, bldVars, lsnVars, sshVars, chanVars, supVars, workVars, envVars,
                 histVars>>

\* keepAlive(): case <-t.stopKeepAlive: return
keepAlive_Stop(g) ==
  /\ kaPC[g] = "run" /\ ~panicked
  /\ CanRecv(stopKeepAlive)
  /\ stopKeepAlive' = Tail(stopKeepAlive)
  /\ kaPC' = [kaPC EXCEPT ![g] = "exit"]
  /\ UNCHANGED <<cfgVars, bldVars, lsnVars, sshVars, done, reconnect, watchConn, Ready,
                 supVars, wPC, rdyPC, alPC, alTag, envVars, histVars, panicked>>

\* ----------------------------------------------------- watchForDisconnect
\* the client of generation g has shut down: client.Wait() has returned and
\* its error is in wc
WaitReturned(g) == sess[g] \in {"dead", "closed"}

\* watchForDisconnect(): case c := <-t.watchConn: if !c { return }
watch_Off(g) ==
  /\ wPC[g] = "select" /\ ~panicked
  /\ CanRecv(watchConn)
  /\ watchConn' = Tail(watchConn)
  /\ wPC' = [wPC EXCEPT ![g] = IF Head(watchConn) THEN "select" ELSE "exit"]
  /\ UNCHANGED <<cfgVars, bldVars, lsnVars, sshVars, done, reconnect, stopKeepAlive, Ready,
                 supVars, kaPC, rdyPC, alPC, alTag, envVars, histVars, panicked>>

\* watchForDisconnect(): case err := <-wc
watch_Wait(g) ==
  /\ wPC[g] = "select" /\ ~panicked
  /\ WaitReturned(g)
  /\ wPC' = [wPC EXCEPT ![g] = "send_rc"]
  /\ UNCHANGED <<cfgVars, bldVars, lsnVars, sshVars, chanVars, supVars, kaPC, rdyPC, alPC,
                 alTag, envVars, histVars, panicked>>

\* watchForDisconnect(): t.reconnect <- err; return
watch_SendReconnect(g) ==
  /\ wPC[g] = "send_rc" /\ ~panicked
  /\ CanSend(reconnect)
  /\ reconnect' = Append(reconnect, "eof")
  /\ wPC' = [wPC EXCEPT ![g] = "exit"]
  /\ UNCHANGED <<cfgVars, bldVars, lsnVars, sshVars, done, stopKeepAlive, watchConn, Ready,
                 supVars, kaPC, rdyPC, alPC, alTag, envVars, histVars, panicked>>

\* ------------------------------------------- connect(): ready consolidator
\* the counter of the WaitGroup of generation g: loops that have not called Done
wgCounter(g) == Cardinality({c \in Channels : alPC[g][c] = "enter"})

\* waitgroup.Wait() has returned; t.Ready <- true
ready_Send(g) ==
  /\ rdyPC[g] = "wait" /\ ~panicked
  /\ wgCounter(g) = 0
  /\ CanSend(Ready)
  /\ Ready' = Append(Ready, TRUE)
  /\ rdyPC' = [rdyPC EXCEPT ![g] = "sent"]
  /\ UNCHANGED <<cfgVars, bldVars, lsnVars, sshVars, done, reconnect, stopKeepAlive,
                 watchConn, supVars, kaPC, wPC, alPC, alTag, envVars, histVars,
                 panicked>>

\* ------------------------------------ connect(): accept loop, startChannel
\* once.Do(... waitgroup.Done())
accept_Enter(g, c) ==
  /\ alPC[g][c] = "enter" /\ ~panicked
  /\ alPC' = [alPC EXCEPT ![g][c] = "accept"]
  /\ UNCHANGED <<cfgVars, bldVars, lsnVars, sshVars, chanVars, supVars, kaPC, wPC, rdyPC,
                 alTag, envVars, histVars, panicked>>

\* an accept loop that keeps the client that was current when it was started
ClientRead_AtSpawn(g) == IF sess[g] = "none" THEN 0 ELSE g

\* the client an accept loop of generation g works with: startChannel() reads
\* the field t.client of the shared Tunnel each time it is called
ClientRead(g) == client

\* startChannel() on a connection of the backlog: Accept() returns it, then
\* the nil check of t.client and t.client.Dial("tcp", Remote); the dial fails
\* on a client whose connection is down and may fail on a live one (the
\* remote end refuses); on success the two copy tasks are started and the
\* loop accepts again
startChannel(g, c) ==
  /\ alPC[g][c] = "accept" /\ ~panicked
  /\ pending[c] # <<>>
  /\ pending' = [pending EXCEPT ![c] = Tail(pending[c])]
  /\ LET h == ClientRead(g) IN
       \/ /\ h = 0
          /\ alPC' = [alPC EXCEPT ![g][c] = "post_nocli"]
          /\ alTag' = [alTag EXCEPT ![g][c] = Head(pending[c])]
          /\ dialedOn' = dialedOn
       \/ /\ h # 0
          /\ alPC' = [alPC EXCEPT ![g][c] = "post_dial"]
          /\ alTag' = [alTag EXCEPT ![g][c] = Head(pending[c])]
          /\ dialedOn' = <<g, h>>
       \/ /\ h # 0 /\ sess[h] = "up"
          /\ alPC' = alPC /\ alTag' = alTag
          /\ dialedOn' = <<g, h>>
  /\ UNCHANGED <<cfgVars, bldVars, lsnVars, sshVars, chanVars, supVars, kaPC, wPC, rdyPC,
                 stopBlocked, conns, acceptErrs, dialCount, panicked>>

\* startChannel(): channel.listener.Accept() returns an error
accept_Fail(g, c) ==
  /\ alPC[g][c] = "accept" /\ ~panicked
  /\ acceptErrs < MaxAcceptErrs
  /\ acceptErrs' = acceptErrs + 1
  /\ alPC' = [alPC EXCEPT ![g][c] = "post_accept"]
  /\ UNCHANGED <<cfgVars, bldVars, lsnVars, sshVars, chanVars, supVars, kaPC, wPC, rdyPC,
                 alTag, pending, stopBlocked, conns, histVars, panicked>>

\* positions of an accept loop that holds the error of startChannel()
PostingPCs == {"post_accept", "post_nocli", "post_dial"}
PostErr(pc) == IF pc = "post_accept" THEN "accept"
               ELSE IF pc = "post_nocli" THEN "no_client" ELSE "remote_dial"

\* accept loop: t.done <- err; return
accept_Post(g, c) ==
  /\ alPC[g][c] \in PostingPCs /\ ~panicked
  /\ CanSend(done)
  /\ done' = Append(done, PostErr(alPC[g][c]))
  /\ alPC' = [alPC EXCEPT ![g][c] = "exit"]
  /\ UNCHANGED <<cfgVars, bldVars, lsnVars, sshVars, reconnect, stopKeepAlive, watchConn,
                 Ready, supVars, kaPC, wPC, rdyPC, alTag, envVars, histVars, panicked>>

\* ------------------------------------------------------------------- Stop
\* Stop() is one send, t.done <- nil.  With room in done it completes at once.
Stop ==
  /\ ~panicked
  /\ stopBlocked = 0
  /\ CanSend(done)
  /\ done' = Append(done, NoErr)
  /\ UNCHANGED <<cfgVars, bldVars, lsnVars, sshVars, reconnect, stopKeepAlive, watchConn,
                 Ready, supVars, workVars, envVars, histVars, panicked>>

\* Stop() with done full: the caller blocks in the send
Stop_Block ==
  /\ ~panicked
  /\ ~CanSend(done)
  /\ stopBlocked < MaxStops
  /\ stopBlocked' = stopBlocked + 1
  /\ UNCHANGED <<cfgVars, bldVars, lsnVars, sshVars, chanVars, supVars, workVars, pending,
                 conns, acceptErrs, histVars, panicked>>

\* a blocked send of Stop() completes once done has room
Stop_Resume ==
  /\ ~panicked
  /\ stopBlocked > 0
  /\ CanSend(done)
  /\ done' = Append(done, NoErr)
  /\ stopBlocked' = stopBlocked - 1
  /\ UNCHANGED <<cfgVars, bldVars, lsnVars, sshVars, reconnect, stopKeepAlive, watchConn,
                 Ready, supVars, workVars, pending, conns, acceptErrs, histVars,
                 panicked>>

\* ------------------------------------------------------------ environment
\* the SSH server or the network ends the session of client g
SessionDies(g) ==
  /\ sess[g] = "up" /\ ~panicked
  /\ sess' = [sess EXCEPT ![g] = "dead"]
  /\ UNCHANGED <<cfgVars, bldVars, lsnVars, client, gen, chanVars, supVars, workVars,
                 envVars, histVars, panicked>>

\* a local program connects to the bound address of channel c
LocalConnect(c) ==
  /\ listener[c] \in open /\ ~panicked
  /\ conns < MaxConns
  /\ conns' = conns + 1
  /\ pending' = [pending EXCEPT
                   ![c] = Append(pending[c], IF Outage THEN "outage" ELSE "up")]
  /\ UNCHANGED <<cfgVars, bldVars, lsnVars, sshVars, chanVars, supVars, workVars,
                 stopBlocked, acceptErrs, histVars, panicked>>

\* the caller of Start() reads the ready signal
ReadyRecv ==
  /\ CanRecv(Ready) /\ ~panicked
  /\ Ready' = Tail(Ready)
  /\ UNCHANGED <<cfgVars, bldVars, lsnVars, sshVars, done, reconnect, stopKeepAlive,
                 watchConn, supVars, workVars, envVars, histVars, panicked>>

\* ------------------------------------------------------- the specification
Supervisor ==
  \/ Start_Call \/ connect_Listen \/ connect_SendDone \/ connect_SendReconnect
  \/ dial_Begin \/ dial_Exhausted \/ dial_Attempt \/ dial_Spawn
  \/ Start_RecvReconnect \/ Start_RecvDone \/ Start_StopKeepAlive
  \/ Start_WatchOff \/ Start_RcClose \/ Start_DnClose

Workers ==
  \/ \E g \in Gens : keepAlive_Tick(g) \/ keepAlive_Stop(g)
  \/ \E g \in Gens : watch_Off(g) \/ watch_Wait(g) \/ watch_SendReconnect(g)
  \/ \E g \in Gens : ready_Send(g)
  \/ \E g \in Gens, c \in Channels :
       accept_Enter(g, c) \/ startChannel(g, c) \/ accept_Post(g, c)

Environment ==
  \/ Stop \/ Stop_Block \/ Stop_Resume \/ ReadyRecv
  \/ \E g \in Gens : SessionDies(g)
  \/ \E c \in Channels : LocalConnect(c)
  \/ \E g \in Gens, c \in Channels : accept_Fail(g, c)

Next == Supervisor \/ Workers \/ Environment

Spec == Init /\ [][Next]_vars

TypeOK ==
  /\ client \in 0..MaxGen /\ gen \in 0..MaxGen
  /\ Len(done) <= ChanCap /\ Len(reconnect) <= ChanCap
  /\ Len(stopKeepAlive) <= ChanCap /\ Len(watchConn) <= ChanCap
  /\ Len(Ready) <= ChanCap
  /\ err \in Errs \cup {NoErr}

\* the bound on generations never cuts a dial short
GenBoundSlack == supPC \in {"dial_loop", "dial_spawn"} => gen < MaxGen

\* The Go scheduler runs every goroutine that can take a step: weak fairness
\* for the supervisor and for every worker.  What the environment does (Stop
\* calls, connections, failures, the end of a session) is under no fairness.
KeepAliveProc(g) == keepAlive_Tick(g) \/ keepAlive_Stop(g)
WatchProc(g) == watch_Off(g) \/ watch_Wait(g) \/ watch_SendReconnect(g)
AcceptProc(g, c) == accept_Enter(g, c) \/ startChannel(g, c) \/ accept_Post(g, c)

Fairness ==
  /\ WF_vars(Supervisor)
  /\ WF_vars(Stop_Resume)
  /\ \A g \in Gens : WF_vars(KeepAliveProc(g))
  /\ \A g \in Gens : WF_vars(WatchProc(g))
  /\ \A g \in Gens : WF_vars(ready_Send(g))
  /\ \A g \in Gens, c \in Channels : WF_vars(AcceptProc(g, c))

FairSpec == Spec /\ Fairness

\* -------------------------------------------------------- BuildSSHChannels
\* An address is the sequence of the tokens of its text, "" being <<>>.
Loopback == <<"127.0.0.1">>
RandomPortAddress == Loopback \o <<":", "0">>
\* the addresses given on the command line: none, a port only, host and port
Addresses == {<<>>, <<":", "1">>, <<"x", ":", "1">>}
AddrLists == UNION {[1..n -> Addresses] : n \in 0..MaxAddrs}

\* strings.HasPrefix(address, ":")
HasColonPrefix(address) == Len(address) > 0 /\ address[1] = ":"

expandAddress(address) ==
  IF HasColonPrefix(address) THEN Loopback \o address ELSE address

\* the loop that builds nl without the test of local[i] != ""
FillLocal_KeepEmpty(local, remote) ==
  [i \in 1..Len(remote) |->
     IF i <= Len(local) THEN local[i] ELSE RandomPortAddress]

\* lSize < rSize: nl has one slot per remote address; a slot takes the local
\* address given for it unless that one is empty or missing
FillLocal(local, remote) ==
  [i \in 1..Len(remote) |->
     IF i <= Len(local)
     THEN IF local[i] # <<>> THEN local[i] ELSE RandomPortAddress
     ELSE RandomPortAddress]

\* the two expansion loops and the loop that makes one channel per remote
MakeChannels(local, remote) ==
  [pc |-> "done", err |-> NoErr,
   channels |-> [i \in 1..Len(remote) |->
                   [Local |-> expandAddress(local[i]),
                    Remote |-> expandAddress(remote[i])]]]

\* BuildSSHChannels with at least one address given
BuildSSHChannels(local, remote) ==
  LET lSize == Len(local)
      rSize == Len(remote)
  IN IF lSize > rSize
     THEN IF rSize = 0
          THEN [pc |-> "done", err |-> "NoRemoteGiven", channels |-> <<>>]
          ELSE MakeChannels(SubSeq(local, 1, rSize), remote)
     ELSE IF lSize < rSize
     THEN MakeChannels(FillLocal(local, remote), remote)
     ELSE MakeChannels(local, remote)

\* the command calls BuildSSHChannels with the addresses of its flags
BuildSSHChannels_Call ==
  /\ bResult.pc = "idle"
  /\ ~(Len(bLocal) = 0 /\ Len(bRemote) = 0)
  /\ bResult' = BuildSSHChannels(bLocal, bRemote)
  /\ UNCHANGED <<cfgVars, lsnVars, sshVars, chanVars, supVars, workVars, envVars,
                 histVars, bLocal, bRemote, panicked>>

\* no address given: the LocalForward of the ssh configuration file is used,
\* or the call fails when the file has none for the server
BuildSSHChannels_FromConfig ==
  /\ bResult.pc = "idle"
  /\ Len(bLocal) = 0 /\ Len(bRemote) = 0
  /\ \/ bResult' = [pc |-> "done", err |-> "LocalForward", channels |-> <<>>]
     \/ \E l \in Addresses, r \in Addresses :
          bResult' = MakeChannels(<<l>>, <<r>>)
  /\ UNCHANGED <<cfgVars, lsnVars, sshVars, chanVars, supVars, workVars, envVars,
                 histVars, bLocal, bRemote, panicked>>

\* the call of BuildSSHChannels alone, on every list of addresses
BuildInit ==
  /\ bLocal \in AddrLists /\ bRemote \in AddrLists /\ bResult = NotBuilt
  /\ ConnectionRetries = 0
  /\ Local = [c \in Channels |-> RandomPort]
  /\ New

BuildNext == BuildSSHChannels_Call \/ BuildSSHChannels_FromConfig

BuildSpec == BuildInit /\ [][BuildNext]_vars

\* ------------------------------------------------------------------ claims
Ended == Returned \/ panicked
WorkerErrs == {"accept", "remote_dial", "no_client"}
\* Start() has not taken a value from done yet
DoneUnread == supPC \notin {"dn_stopKA", "dn_watch", "dn_close", "returned"}


\* C1: with ConnectionRetries = N > 0, a run in which all N attempts of the
\* first dial() have failed ends in one way only: Start() returns the
\* "retries exhausted" error (nil if a Stop() got in first), N attempts having
\* been made
AllDialsFailed ==
  /\ ConnectionRetries > 0 /\ gen = 0
  /\ dialCount = ConnectionRetries /\ retries = ConnectionRetries
C1_RetryBound ==
  (AllDialsFailed /\ Ended) => (Returned /\ err \in {"exhausted", NoErr})

\* C2: with retries enabled, the end of the current session, the first or a
\* later one, is followed by a new dial; unless Start() returns because a
\* Stop() or a fatal error got in first, or the client configuration of the
\* new dial cannot be built
C2_Reconnects ==
  \A g \in Gens :
    [](ConnectionRetries > 0 /\ client = g /\ sess[g] = "dead" /\ Running
         => <>(supPC = "dial_loop" \/ Returned \/ err = "config"))

\* C3: at most one consolidator ever sends or tries to send on Ready, and it
\* does so only when every accept loop of its generation has been entered
ReadyAttempts ==
  {g \in Gens : rdyPC[g] = "sent" \/ (rdyPC[g] = "wait" /\ wgCounter(g) = 0)}
C3_ReadyOnce ==
  /\ Cardinality(ReadyAttempts) <= 1
  /\ \A g \in Gens : rdyPC[g] = "sent" => wgCounter(g) = 0

\* C4: no caller of Stop() is ever blocked in it
C4_StopNeverBlocks == stopBlocked = 0

\* C5: once Stop() has posted nil on done while Start() is running, with
\* retries enabled and a session established before, Start() eventually
\* returns
C5_StopReturns ==
  [](Running /\ ConnectionRetries > 0 /\ gen > 0 /\ done = <<NoErr>> /\ DoneUnread
       => <>Returned)

\* C6: a channel that has been bound keeps the listener handle and the Local
\* address it got from its first bind, and no other listener is ever bound
C6_BindPersistence ==
  /\ \A c \in Channels :
       firstBind[c] # <<0, 0>> =>
         /\ listener[c] = firstBind[c][1]
         /\ Local[c] = firstBind[c][2]
         /\ listener[c] \in open
  /\ Cardinality(open) = Cardinality({c \in Channels : listener[c] # 0})

\* C6 witness: Listen() has run again for a reconnect, on a channel whose port
\* was assigned by the operating system
C6_Witness ==
  /\ gen = 2 /\ supPC = "select"
  /\ \A c \in Channels : listener[c] # 0
  /\ \E c \in Channels : Local[c] \in EphemeralPorts

\* C7: an error that an accept loop has posted on done before Start() took
\* anything from done is the error Start() returns
C7_FatalReturned ==
  \A e \in WorkerErrs :
    [](done = <<e>> /\ DoneUnread /\ Running => <>(Returned /\ err = e))

\* C8: when the first Listen() fails, Start() returns the bind error, no dial
\* having been attempted and no worker started
NoWorkers ==
  \A g \in Gens :
    /\ kaPC[g] = "none" /\ wPC[g] = "none" /\ rdyPC[g] = "none"
    /\ \A c \in Channels : alPC[g][c] = "none"
BindFailed == supPC = "send_done" /\ err = "bind"
C8_BindErrorReturned ==
  [](BindFailed =>
       <>(Returned /\ err = "bind" /\ dialCount = 0 /\ gen = 0 /\ NoWorkers))

\* C9: no accept loop posts a fatal error on done for a connection that
\* arrived during an outage
C9_OutageConnNotFatal ==
  \A g \in Gens, c \in Channels :
    ~(alTag[g][c] = "outage" /\ alPC[g][c] = "exit")

\* C10: once Start() has returned, every listener is closed and no accept
\* loop is still running or blocked in Accept()
C10_CleanShutdown ==
  Returned =>
    /\ \A c \in Channels : listener[c] \notin open
    /\ \A g \in Gens, c \in Channels : alPC[g][c] \in {"none", "exit"}

\* C11: with retries disabled (ConnectionRetries < 0) at most one ssh.Dial is
\* attempted per dial(), and a failed attempt starts nothing: while
\* Tunnel.client is nil there is no keep-alive task, watcher, consolidator or
\* accept loop
C11_NoRetryDialFatal ==
  ConnectionRetries < 0 =>
    /\ dialCount <= 1
    /\ client = 0 => NoWorkers

\* C12: with ConnectionRetries = 0 failed attempts never end dial(): the
\* "retries exhausted" error does not occur, dial() hands an error to
\* connect() only when the client configuration cannot be built, and it
\* returns nil only with a client, made by the attempt that follows the
\* retries failed ones
C12_RetryForever ==
  ConnectionRetries = 0 =>
    /\ err # "exhausted"
    /\ supPC = "send_reconnect" => err = "config"
    /\ supPC = "dial_spawn" => client # 0 /\ dialCount = retries + 1

\* C12 witness: dial() is about to return nil after failed attempts
C12_Witness ==
  /\ ConnectionRetries = 0 /\ supPC = "dial_spawn"
  /\ retries > 0 /\ client # 0 /\ sess[client] = "up"

\* C13: with ConnectionRetries = 0, while Start() waits in its select on an
\* established session that has died, the death is being detected: the
\* watcher of that session is alive, or a report is already on reconnect
C13_ZeroRetriesDetects ==
  (ConnectionRetries = 0 /\ supPC = "select" /\ client # 0 /\ sess[client] = "dead")
    => (wPC[client] \in {"select", "send_rc"} \/ CanRecv(reconnect))

\* the pairing rule: the result for lists L and R that are not both empty
PairedLocal(L, R, i) ==
  IF i > Len(L) THEN RandomPortAddress
  ELSE IF Len(L) < Len(R) /\ L[i] = <<>> THEN RandomPortAddress
  ELSE expandAddress(L[i])

\* C14: BuildSSHChannels(L, R), L and R not both empty, fails with
\* NoRemoteGiven when R is empty; otherwise it returns |R| channels, channel i
\* with remote expand(R[i]) and local expand(L[i]), the local being
\* 127.0.0.1:0 where L has no slot i and, when |L| < |R|, where L[i] is empty
C14_Pairing ==
  (bResult.pc = "done" /\ ~(bLocal = <<>> /\ bRemote = <<>>)) =>
    IF bRemote = <<>>
    THEN bResult.err = "NoRemoteGiven"
    ELSE /\ bResult.err = NoErr
         /\ Len(bResult.channels) = Len(bRemote)
         /\ \A i \in 1..Len(bRemote) :
              /\ bResult.channels[i].Remote = expandAddress(bRemote[i])
              /\ bResult.channels[i].Local = PairedLocal(bLocal, bRemote, i)

\* C14 witness: fewer locals than remotes, an empty local slot, a local and a
\* remote that are expanded
C14_Witness ==
  /\ bResult.pc = "done" /\ bResult.err = NoErr
  /\ 0 < Len(bLocal) /\ Len(bLocal) < Len(bRemote)
  /\ bLocal[1] = <<>> /\ bResult.channels[1].Local = RandomPortAddress
  /\ HasColonPrefix(bRemote[1]) /\ bResult.channels[1].Remote # bRemote[1]

\* C15: no channel ever has two accept loops running, and only the first
\* return of dial() starts accept loops and a ready consolidator
C15_OneAcceptLoop ==
  /\ \A c \in Channels :
       Cardinality({g \in Gens : alPC[g][c] \notin {"none", "exit"}}) <= 1
  /\ \A g \in Gens \ {1} :
       rdyPC[g] = "none" /\ \A c \in Channels : alPC[g][c] = "none"

\* C16: the error of building the client configuration is never put on
\* reconnect, no ssh.Dial is attempted by the dial() that met it, and a run
\* that ends with it ends by Start() returning it
C16_ConfigErrorFatal ==
  /\ reconnect # <<"config">>
  /\ err = "config" => dialCount = 0
  /\ (err = "config" /\ Ended) => Returned

\* C17: every remote dial that an accept loop issues is issued on the client
\* that Tunnel.client holds at that step, whatever the generation of the loop
C17_DialsOnCurrent ==
  [][\A g \in Gens, c \in Channels :
       (startChannel(g, c) /\ client # 0) => dialedOn' = <<g, client>>]_vars

\* C17 witness: after a reconnect, an accept loop started for the first
\* session has dialed on the client of the second
C17_Witness == dialedOn = <<1, 2>> /\ client = 2

\* C18: no method is ever called on a nil Tunnel.client: the process never
\* dies of the nil dereference in t.client.Close() or t.client.SendRequest()
C18_NoNilClientUse == ~panicked

\* C19: dial() never starts the workers of a new session with a token still
\* buffered on stopKeepAlive or watchConn, and while Start() waits in its
\* select on a live session that session has its keep-alive task running and,
\* with retries enabled, its watcher watching
C19_TokensMatchSessions ==
  /\ supPC = "dial_spawn" => (stopKeepAlive = <<>> /\ watchConn = <<>>)
  /\ (supPC = "select" /\ client # 0 /\ sess[client] = "up") =>
       /\ kaPC[client] = "run"
       /\ ConnectionRetries > 0 => wPC[client] = "select"

\* the supervisor is at a send on a full channel that nobody can receive from:
\* only a running keep-alive task receives from stopKeepAlive, only a watcher
\* in its select from watchConn, only the supervisor itself from reconnect and
\* done, and only the supervisor starts workers
StuckInSend ==
  /\ ~panicked
  /\ \/ /\ supPC \in {"rc_stopKA", "dn_stopKA"} /\ ~CanSend(stopKeepAlive)
        /\ \A g \in Gens : kaPC[g] # "run"
     \/ /\ supPC \in {"rc_watch", "dn_watch"} /\ ~CanSend(watchConn)
        /\ \A g \in Gens : wPC[g] # "select"
     \/ supPC = "send_done" /\ ~CanSend(done)
     \/ supPC = "send_reconnect" /\ ~CanSend(reconnect)

\* C20: the supervisor is never blocked for ever in one of its own sends on
\* stopKeepAlive, watchConn, reconnect or done
C20_SendsComplete == ~StuckInSend

====
